---------------------------- MODULE Spec2Model ----------------------------
(***************************************************************************)
(* A model of the SRX price index scraper (scrape_srx_price_index.py) and  *)
(* of its companion batch re-normalizer (process_and_zip.py).              *)
(*                                                                         *)
(* Three specifications share the module:                                  *)
(*   SpecDates       the temporal normalizer and the sort of a dataset,    *)
(*   SpecPagination  handle_pagination over a paginated table,             *)
(*   Spec            a whole program run on an output directory:           *)
(*                   scrape_all of the scraper, or main of the batch tool. *)
(* Text is modelled as sequences of one-character strings, so that split,  *)
(* strip, capitalize, lower and replace do what the Python methods do.     *)
(***************************************************************************)
EXTENDS Integers, Sequences, FiniteSets, Bags, TLC

VARIABLES
    \* --- SpecDates: one dataset going through normalization passes
    df_raw,        \* the dataset as first given (scraped rows, or a file's rows)
    df_prev,       \* the dataset before the latest pass
    df_cur,        \* the dataset after the latest pass
    passes,        \* << "scraper" | "batch", ... >>: the passes applied so far
    reported,      \* history: the labels named in parse error messages
    sort_key,      \* history: column _sort_key of the latest pass, before the sort
    \* --- SpecPagination: one call of handle_pagination
    site,          \* the tables of the site's pages, in order
    view,          \* index of the table the browser shows
    pg_pc,         \* "extract" | "next" | "done"
    all_data,      \* handle_pagination.all_data
    page_num,      \* handle_pagination.page_num
    previous_page_data, \* <<>> for None, << page >> otherwise
    reads,         \* history: every page_data read, in order
    clicks,        \* history: number of clicks on the next control
    lookups,       \* history: number of look-ups of the next control
    last_ctl,      \* history: << the next control as the latest look-up found it >>
    read_errors,   \* history: number of page reads cut short by an exception
    error_read,    \* history: which read was the first cut short (0: none)
    exit_reason,   \* which break ended the loop ("" while running)
    \* --- Spec: one run of a program on the output directory
    prog,          \* "scraper" (scrape_all) | "batch" (process_and_zip.main)
    pc,            \* where the run is
    files,         \* the output directory: file name -> content
    zip,           \* << >>, or << entries >> of output/srx_price_index.zip
    files0,        \* history: the directory as the run found it
    zip0,          \* history: the archive as the run found it
    driver,        \* self.driver: "none" | "open" | "closed" | "quit_raised"
    idx,           \* number of combinations the loops have started
    current,       \* scrape_all.current
    successful,    \* scrape_all.successful
    failed,        \* scrape_all.failed
    exc,           \* an exception is propagating out of the try block
    comb,          \* history: what scrape_combination did in the latest call
    attempted,     \* history: combinations scrape_combination was called for
    succeeded,     \* history: combinations counted in successful
    changes,       \* history: how often the outcome changed between combinations
    zip_calls,     \* history: number of calls of create_zip_archive
    processed_files, \* main.processed_files of the batch tool
    summary        \* << >>, or << the counts the run summary printed >>

dateVars == << df_raw, df_prev, df_cur, passes, reported, sort_key >>
pagVars  == << site, view, pg_pc, all_data, page_num, previous_page_data,
               reads, clicks, lookups, last_ctl, read_errors, error_read,
               exit_reason >>
runVars  == << prog, pc, files, zip, files0, zip0, driver, idx, current,
               successful, failed, exc, comb, attempted, succeeded, changes,
               zip_calls, processed_files, summary >>
vars     == << dateVars, pagVars, runVars >>

-----------------------------------------------------------------------------
(* Bounds of the model                                                     *)

\* longest dataset of SpecDates
MaxRows == 3
\* most pages of a site in SpecPagination
MaxPages == 3

-----------------------------------------------------------------------------
(* Text: Python str methods over sequences of characters                   *)

UpperLetters ==
    << "A","B","C","D","E","F","G","H","I","J","K","L","M",
       "N","O","P","Q","R","S","T","U","V","W","X","Y","Z" >>
LowerLetters ==
    << "a","b","c","d","e","f","g","h","i","j","k","l","m",
       "n","o","p","q","r","s","t","u","v","w","x","y","z" >>
\* the characters in code point order (str comparison is by code point)
CodePoints ==
    << " ", "-", ".", "0","1","2","3","4","5","6","7","8","9" >>
    \o UpperLetters \o << "_" >> \o LowerLetters

IndexOf(c, seq) ==
    IF \E i \in DOMAIN seq : seq[i] = c
    THEN CHOOSE i \in DOMAIN seq : seq[i] = c
    ELSE 0

lower_char(c) ==
    IF IndexOf(c, UpperLetters) > 0 THEN LowerLetters[IndexOf(c, UpperLetters)] ELSE c
upper_char(c) ==
    IF IndexOf(c, LowerLetters) > 0 THEN UpperLetters[IndexOf(c, LowerLetters)] ELSE c

\* str.lower()
lower(s) == [i \in DOMAIN s |-> lower_char(s[i])]
\* str.capitalize(): first character upper-cased, the rest lower-cased
capitalize(s) ==
    [i \in DOMAIN s |-> IF i = 1 THEN upper_char(s[i]) ELSE lower_char(s[i])]

IsSpace(c) == c = " "

\* str.strip()
RECURSIVE lstrip(_)
lstrip(s) ==
    IF s # << >> /\ IsSpace(Head(s)) THEN lstrip(Tail(s)) ELSE s
RECURSIVE rstrip(_)
rstrip(s) ==
    IF s # << >> /\ IsSpace(s[Len(s)]) THEN rstrip(SubSeq(s, 1, Len(s) - 1)) ELSE s
strip(s) == rstrip(lstrip(s))

\* str.split(sep): every occurrence of the one-character sep cuts, empty
\* pieces are kept
RECURSIVE split_sep_from(_, _, _, _)
split_sep_from(s, sep, done, cur) ==
    IF s = << >> THEN Append(done, cur)
    ELSE IF Head(s) = sep
         THEN split_sep_from(Tail(s), sep, Append(done, cur), << >>)
         ELSE split_sep_from(Tail(s), sep, done, Append(cur, Head(s)))
split_sep(s, sep) == split_sep_from(s, sep, << >>, << >>)

\* str.split(): cuts at runs of whitespace, no empty pieces
RECURSIVE split_ws_from(_, _, _)
split_ws_from(s, done, cur) ==
    IF s = << >> THEN (IF cur = << >> THEN done ELSE Append(done, cur))
    ELSE IF IsSpace(Head(s))
         THEN split_ws_from(Tail(s), IF cur = << >> THEN done ELSE Append(done, cur), << >>)
         ELSE split_ws_from(Tail(s), done, Append(cur, Head(s)))
split(s) == split_ws_from(s, << >>, << >>)

\* str comparison: a < b and a <= b
RECURSIVE str_lt(_, _)
str_lt(a, b) ==
    IF b = << >> THEN FALSE
    ELSE IF a = << >> THEN TRUE
    ELSE IF Head(a) = Head(b) THEN str_lt(Tail(a), Tail(b))
    ELSE IndexOf(Head(a), CodePoints) < IndexOf(Head(b), CodePoints)
str_le(a, b) == a = b \/ str_lt(a, b)

-----------------------------------------------------------------------------
(* The temporal normalizer                                                 *)

Jan == << "J","a","n" >>
Feb == << "F","e","b" >>
Mar == << "M","a","r" >>
Apr == << "A","p","r" >>
May == << "M","a","y" >>
Jun == << "J","u","n" >>
Jul == << "J","u","l" >>
Aug == << "A","u","g" >>
Sep == << "S","e","p" >>
Oct == << "O","c","t" >>
Nov == << "N","o","v" >>
Dec == << "D","e","c" >>

\* the dict, in insertion order: << key, value >>
MONTH_MAP ==
    << << Jan, << "0","1" >> >>, << Feb, << "0","2" >> >>, << Mar, << "0","3" >> >>,
       << Apr, << "0","4" >> >>, << May, << "0","5" >> >>, << Jun, << "0","6" >> >>,
       << Jul, << "0","7" >> >>, << Aug, << "0","8" >> >>, << Sep, << "0","9" >> >>,
       << Oct, << "1","0" >> >>, << Nov, << "1","1" >> >>, << Dec, << "1","2" >> >> >>

\* the scraper's own copy, local to process_dates
month_map == MONTH_MAP

\* {v: k.lower() for k, v in MONTH_MAP.items()}
NUM_TO_MONTH ==
    [i \in DOMAIN MONTH_MAP |-> << MONTH_MAP[i][2], lower(MONTH_MAP[i][1]) >>]

\* dict.get(key, default) on a dict given as a sequence of pairs
dict_get(d, key, default) ==
    IF \E i \in DOMAIN d : d[i][1] = key
    THEN d[CHOOSE i \in DOMAIN d : d[i][1] = key][2]
    ELSE default

\* f"{a}-{b}"
dashed(a, b) == a \o << "-" >> \o b

\* process_and_zip.parse_date_to_periodM
parse_date_to_periodM(date_str0) ==
    LET date_str == strip(date_str0)
        dparts == split_sep(date_str, "-")
        wparts == split(date_str)
    IN  IF /\ \E i \in DOMAIN date_str : date_str[i] = "-"
           /\ Len(dparts) = 2
           /\ Len(dparts[1]) = 3
           /\ Len(dparts[2]) = 4
        THEN dashed(dparts[2], dict_get(MONTH_MAP, capitalize(dparts[1]), << "0","1" >>))
        ELSE IF Len(wparts) = 2
        THEN dashed(wparts[2], dict_get(MONTH_MAP, wparts[1], << "0","1" >>))
        ELSE date_str

\* periodM_to_mmm_yyyy without the lower-casing of the abbreviation
periodM_to_mmm_yyyy_keeps_case(period_str) ==
    LET parts == split_sep(period_str, "-")
    IN  IF Len(parts) = 2
        THEN dashed(capitalize(dict_get(NUM_TO_MONTH, parts[2], << "j","a","n" >>)), parts[1])
        ELSE period_str

\* process_and_zip.periodM_to_mmm_yyyy
periodM_to_mmm_yyyy(period_str) ==
    LET parts == split_sep(period_str, "-")
    IN  IF Len(parts) = 2
        THEN dashed(dict_get(NUM_TO_MONTH, parts[2], << "j","a","n" >>), parts[1])
        ELSE period_str

\* SRXPriceIndexScraper.process_dates.parse_date_to_periodM
process_dates_parse_date_to_periodM(date_str) ==
    LET parts == split(strip(date_str))
    IN  IF Len(parts) = 2
        THEN dashed(parts[2], dict_get(month_map, parts[1], << "0","1" >>))
        ELSE date_str

\* SRXPriceIndexScraper.process_dates.periodM_to_mmm_yyyy
process_dates_periodM_to_mmm_yyyy(period_str) ==
    LET parts == split_sep(period_str, "-")
        month_abbr == SelectSeq(month_map, LAMBDA kv : kv[2] = parts[2])
    IN  IF Len(parts) = 2 /\ month_abbr # << >>
        THEN dashed(lower(month_abbr[1][1]), parts[1])
        ELSE period_str


-----------------------------------------------------------------------------
(* Datasets and their normalization                                        *)
(* A DataFrame is [columns |-> names, rows |-> sequence of rows]; a row is *)
(* a sequence of cells, one per column.                                    *)

HasDate(df) == \E c \in DOMAIN df.columns : df.columns[c] = "Date"
DateCol(df) == CHOOSE c \in DOMAIN df.columns : df.columns[c] = "Date"

\* column 'Date' of the frame, as a sequence
date_column(df) == [i \in DOMAIN df.rows |-> df.rows[i][DateCol(df)]]

RowOrders(n) ==
    {p \in [1..n -> 1..n] : \A i, j \in 1..n : i # j => p[i] # p[j]}

\* DataFrame.sort_values('_sort_key', ascending=True): the row orders the call
\* may give.  The call leaves kind at its default 'quicksort', which pandas
\* documents as not stable: rows with equal keys come out in an order the
\* build decides (numpy's introsort keeps them in place only below its
\* small-array threshold of 16, a length this model does not reach).
sort_values(keys) ==
    {p \in RowOrders(Len(keys)) :
        \A i \in 1..(Len(keys) - 1) : str_le(keys[p[i]], keys[p[i + 1]])}

\* rows reordered by p, each Date cell replaced by the label made from the
\* row's sort key
reformatted(df, labels, p) ==
    [df EXCEPT !.rows =
        [i \in DOMAIN df.rows |->
            [df.rows[p[i]] EXCEPT ![DateCol(df)] = labels[p[i]]]]]

\* df['_sort_key'] = df['Date'].apply(parse_date_to_periodM), batch tool
process_dataframe_sort_key(df) ==
    IF df.rows = << >> \/ ~HasDate(df) THEN << >>
    ELSE [i \in DOMAIN df.rows |-> parse_date_to_periodM(date_column(df)[i])]

\* df['_sort_key'] = df['Date'].apply(parse_date_to_periodM), scraper
process_dates_sort_key(df) ==
    IF df.rows = << >> \/ ~HasDate(df) THEN << >>
    ELSE [i \in DOMAIN df.rows |->
             process_dates_parse_date_to_periodM(date_column(df)[i])]

\* process_and_zip.process_dataframe: the set of frames it may return
process_dataframe(df) ==
    IF df.rows = << >> \/ ~HasDate(df) THEN {df}
    ELSE LET keys == process_dataframe_sort_key(df)
             labels == [i \in DOMAIN keys |-> periodM_to_mmm_yyyy(keys[i])]
         IN  {reformatted(df, labels, p) : p \in sort_values(keys)}

\* SRXPriceIndexScraper.process_dates: the set of frames it may return
process_dates(df) ==
    IF df.rows = << >> \/ ~HasDate(df) THEN {df}
    ELSE LET keys == process_dates_sort_key(df)
             labels == [i \in DOMAIN keys |-> process_dates_periodM_to_mmm_yyyy(keys[i])]
         IN  {reformatted(df, labels, p) : p \in sort_values(keys)}

\* The try body of parse_date_to_periodM (str, strip, split, len, dict.get,
\* an f-string): whether it raises on the label.  No text makes it raise.
parse_date_to_periodM_raises(date_str) == FALSE

\* the labels process_dataframe names in "Could not parse date" messages: the
\* message is printed by the except clause only
process_dataframe_prints(df) ==
    IF df.rows = << >> \/ ~HasDate(df) THEN {}
    ELSE { date_column(df)[i] : i \in { n \in DOMAIN df.rows :
               parse_date_to_periodM_raises(date_column(df)[n]) } }

\* the labels process_dates names in messages: its except clause is "pass"
process_dates_prints(df) == {}

-----------------------------------------------------------------------------
(* SpecDates: a dataset is normalized by the scraper on its way to disk,   *)
(* and re-normalized in place by each run of the batch tool.               *)

\* most normalization passes over one dataset
MaxPasses == 2

Months == {MONTH_MAP[i][1] : i \in DOMAIN MONTH_MAP}
Years  == { << "2","0","1","9" >>, << "2","0","2","0" >>, << "2","0","2","5" >> }

\* "<Mon> <YYYY>" as the site prints it, and the canonical "<mon>-<yyyy>"
MonYear(mon, yr)   == mon \o << " " >> \o yr
Canonical(mon, yr) == lower(mon) \o << "-" >> \o yr

SiteLabels      == {MonYear(m, y) : m \in Months, y \in Years}
CanonicalLabels == {Canonical(m, y) : m \in Months, y \in Years}
\* other capitalizations of the two shapes
CaseLabels ==
    { << "N","O","V"," ","2","0","2","5" >>, << "n","o","v"," ","2","0","2","5" >>,
      << "N","O","V","-","2","0","2","5" >>, << "N","o","v","-","2","0","2","5" >> }
\* labels of neither shape, or with an unknown month or a short year
OddLabels ==
    { << "T","o","t","a","l" >>, << "f","o","o","-","b","a","r" >>,
      << "2","0","2","5","-","1","3" >>, << "2","0","2","5","-","1","1" >>,
      << "F","o","o"," ","2","0","2","0" >>, << "N","o","v"," ","2","5" >>,
      << " ","N","o","v"," "," ","2","0","2","5"," " >>,
      << "Q","1","-","2","0","2","5" >> }
AllLabels == SiteLabels \cup CanonicalLabels \cup CaseLabels \cup OddLabels

Y2019 == << "2","0","1","9" >>
Y2020 == << "2","0","2","0" >>
\* rows of the datasets of more than one row: << Date, Index Value >>
PoolRows ==
    { << MonYear(Jan, Y2020), 1 >>, << MonYear(Nov, Y2019), 1 >>,
      << MonYear(Mar, Y2020), 1 >>, << MonYear(Jan, Y2020), 2 >>,
      << MonYear(<< "F","o","o" >>, Y2020), 1 >>,
      << Canonical(Nov, Y2019), 1 >>, << Canonical(Jan, Y2020), 1 >>,
      << Canonical(Jan, Y2020), 2 >>, << << "Q","1","-","2","0","2","5" >>, 1 >> }

SeqsUpTo(S, n) == UNION {[1..k -> S] : k \in 0..n}

DateColumns == << "Date", "Index Value" >>
Datasets ==
    {[columns |-> DateColumns, rows |-> << << l, 1 >> >>] : l \in AllLabels}
    \cup {[columns |-> DateColumns, rows |-> r] : r \in SeqsUpTo(PoolRows, MaxRows)}
    \cup {[columns |-> << "Month", "Index Value" >>, rows |-> << << MonYear(Jan, Y2020), 1 >> >>]}

PagIdle ==
    /\ site = << >> /\ view = 0 /\ pg_pc = "idle" /\ all_data = << >>
    /\ page_num = 0 /\ previous_page_data = << >> /\ reads = << >>
    /\ clicks = 0 /\ lookups = 0 /\ last_ctl = << >> /\ read_errors = 0
    /\ error_read = 0 /\ exit_reason = ""

DatesIdle ==
    /\ df_raw = [columns |-> << >>, rows |-> << >>]
    /\ df_prev = df_raw /\ df_cur = df_raw /\ passes = << >>
    /\ reported = {} /\ sort_key = << >>

NoCombination == [c |-> 0, raised |-> FALSE, df |-> "empty", steps |-> << >>,
                  ids |-> {}, three_selects |-> TRUE,
                  located |-> {}, selected |-> {}]

RunIdle ==
    /\ prog = "none" /\ pc = "idle" /\ files = << >> /\ zip = << >>
    /\ files0 = << >> /\ zip0 = << >> /\ driver = "none" /\ idx = 0
    /\ current = 0 /\ successful = 0 /\ failed = 0 /\ exc = FALSE
    /\ comb = NoCombination /\ attempted = {} /\ succeeded = {}
    /\ changes = 0 /\ zip_calls = 0 /\ processed_files = {}
    /\ summary = << >>

InitDates ==
    /\ df_raw \in Datasets
    /\ df_prev = df_raw
    /\ df_cur = df_raw
    /\ passes = << >>
    /\ reported = {}
    /\ sort_key = << >>
    /\ PagIdle
    /\ RunIdle

\* save_data of the scraper: the scraped frame is normalized once
ScraperPass ==
    /\ passes = << >>
    /\ \E out \in process_dates(df_cur) :
          /\ df_cur' = out
          /\ df_prev' = df_cur
    /\ passes' = Append(passes, "scraper")
    /\ reported' = reported \cup process_dates_prints(df_cur)
    /\ sort_key' = process_dates_sort_key(df_cur)
    /\ UNCHANGED << df_raw, pagVars, runVars >>

\* process_files of the batch tool: the file's frame is normalized again
BatchPass ==
    /\ Len(passes) < MaxPasses
    /\ \E out \in process_dataframe(df_cur) :
          /\ df_cur' = out
          /\ df_prev' = df_cur
    /\ passes' = Append(passes, "batch")
    /\ reported' = reported \cup process_dataframe_prints(df_cur)
    /\ sort_key' = process_dataframe_sort_key(df_cur)
    /\ UNCHANGED << df_raw, pagVars, runVars >>

NextDates == ScraperPass \/ BatchPass

SpecDates == InitDates /\ [][NextDates]_vars

-----------------------------------------------------------------------------
(* Claims about the normalizer, checked under SpecDates                    *)

Digits == << "0","1","2","3","4","5","6","7","8","9" >>
DigitValue(c) == IndexOf(c, Digits) - 1
YearNumber(y) ==
    1000 * DigitValue(y[1]) + 100 * DigitValue(y[2]) + 10 * DigitValue(y[3]) + DigitValue(y[4])
MonthNumber(mon) == CHOOSE i \in DOMAIN MONTH_MAP : MONTH_MAP[i][1] = mon
\* the month a "<Mon> <YYYY>" label names, counted in months
SitePeriod(l) == 12 * YearNumber(SubSeq(l, 5, 8)) + MonthNumber(SubSeq(l, 1, 3))
\* the label "<mon>-<YYYY>" of a "<Mon> <YYYY>" label
SiteDisplay(l) == lower(SubSeq(l, 1, 3)) \o << "-" >> \o SubSeq(l, 5, 8)
\* the month a canonical "<mon>-<yyyy>" label names, counted in months
CanonicalPeriod(l) ==
    12 * YearNumber(SubSeq(l, 5, 8))
    + (CHOOSE i \in DOMAIN MONTH_MAP : lower(MONTH_MAP[i][1]) = SubSeq(l, 1, 3))

AllDatesIn(df, S) == HasDate(df) /\ \A i \in DOMAIN df.rows : df.rows[i][1] \in S

\* the stable ascending order of the rows of a dataset of "<Mon> <YYYY>" labels
StableOrder(df) ==
    CHOOSE p \in RowOrders(Len(df.rows)) :
        \A i, j \in DOMAIN df.rows :
            i < j => \/ SitePeriod(df.rows[p[i]][1]) < SitePeriod(df.rows[p[j]][1])
                     \/ /\ SitePeriod(df.rows[p[i]][1]) = SitePeriod(df.rows[p[j]][1])
                        /\ p[i] < p[j]

\* C4, the ascending half only: after the first pass over a dataset of
\* "<Mon> <YYYY>" labels the rows are in ascending period order.
C4_Ascending ==
    (Len(passes) = 1 /\ AllDatesIn(df_raw, SiteLabels)) =>
        \A i \in 1..(Len(df_cur.rows) - 1) :
            CanonicalPeriod(df_cur.rows[i][1]) <= CanonicalPeriod(df_cur.rows[i + 1][1])

\* C4: for every dataset of well-formed "<Mon> <YYYY>" labels, the rows
\* written by process_dates / process_dataframe are in ascending PeriodKey
\* order and rows of equal PeriodKey keep their original relative order.
C4_AscendingStable ==
    (Len(passes) = 1 /\ AllDatesIn(df_raw, SiteLabels)) =>
        df_cur.rows =
            [i \in DOMAIN df_raw.rows |->
                << SiteDisplay(df_raw.rows[StableOrder(df_raw)[i]][1]),
                   df_raw.rows[StableOrder(df_raw)[i]][2] >>]

\* C5: for every label "<Mon> <YYYY>" (twelve abbreviations, 4-digit year)
\* periodM_to_mmm_yyyy(parse_date_to_periodM(L)) is "<mon>-<YYYY>", month
\* lower-cased and year unchanged, in the scraper and in the batch tool.
C5_SiteLabelRoundTrip ==
    \A m \in Months, y \in Years :
        (Len(passes) = 1 /\ df_raw.rows = << << MonYear(m, y), 1 >> >> /\ HasDate(df_raw)) =>
            df_cur.rows = << << lower(m) \o << "-" >> \o y, 1 >> >>

C5_Witness ==
    /\ passes = << "batch" >>
    /\ df_raw.rows = << << << "N","o","v"," ","2","0","2","5" >>, 1 >> >>
    /\ df_cur.rows = << << << "n","o","v","-","2","0","2","5" >>, 1 >> >>

\* canonical labels in chronological order
Chronological(df) ==
    /\ AllDatesIn(df, CanonicalLabels)
    /\ \A i \in 1..(Len(df.rows) - 1) :
          CanonicalPeriod(df.rows[i][1]) <= CanonicalPeriod(df.rows[i + 1][1])

\* C6: re-running normalization is a no-op on already-normalized data:
\* process_dataframe returns a dataset of canonical labels in chronological
\* order unchanged, and normalize(normalize(rows)) = normalize(rows) for
\* every input dataset.
C6_RenormalizeNoOp ==
    /\ (passes # << >> /\ passes[Len(passes)] = "batch" /\ Chronological(df_prev)) =>
          df_cur = df_prev
    /\ (passes = << "batch", "batch" >>) => df_cur = df_prev

-----------------------------------------------------------------------------
(* The paginated table                                                     *)
(* A table is a sequence of tr rows; a row is [th |-> texts, td |-> texts],*)
(* the texts of its th and of its td cells.  NoTable is a page on which no *)
(* table element is found.                                                 *)

NoTable == << [th |-> << "no table" >>, td |-> << >>] >>

\* [x.text.strip() for x in cells]
stripped(cells) == [i \in DOMAIN cells |-> strip(cells[i])]
\* any(texts): some text is not empty
any(texts) == \E i \in DOMAIN texts : texts[i] # << >>

\* the rows appended by the loop over rows[start_idx:], up to row `upto`
RECURSIVE data_rows(_, _, _)
data_rows(rows, from, upto) ==
    IF from > upto THEN << >>
    ELSE LET cells == rows[from].td
             row_data == stripped(cells)
         IN  (IF Len(cells) >= 2 /\ any(row_data) THEN << row_data >> ELSE << >>)
             \o data_rows(rows, from + 1, upto)

\* SRXPriceIndexScraper.extract_table_data on the table shown; fail_at = 0,
\* or the index of the row whose reading raises (the rows before it stay in
\* data, which the except clause returns)
extract_table_data(rows, fail_at) ==
    IF rows = NoTable THEN << >>
    ELSE LET headers == IF rows # << >> /\ rows[1].th # << >>
                        THEN stripped(rows[1].th)
                        ELSE IF rows # << >> THEN stripped(rows[1].td) ELSE << >>
             start_idx == IF rows # << >> /\ headers # << >> /\ any(headers) THEN 1 ELSE 0
         IN  IF fail_at = 0 THEN data_rows(rows, start_idx + 1, Len(rows))
             ELSE IF fail_at = 1 THEN << >>
             ELSE data_rows(rows, start_idx + 1, fail_at - 1)

\* "if page_data:" (line 291): the page read has rows
has_rows_always(page_data) == TRUE
has_rows(page_data) == page_data # << >>

\* page_data == previous_page_data, with previous_page_data None at first
is_duplicate_never(previous, page_data) == FALSE
is_duplicate(previous, page_data) ==
    previous # << >> /\ page_data = previous[1]

\* The next control as a look-up finds it: "absent" (find_element raises
\* NoSuchElementException), or its is_displayed(), whether 'disabled' is in
\* its lower-cased class, and which hiding rule its lower-cased style holds.
Absent == [present |-> FALSE, displayed |-> FALSE, class_disabled |-> FALSE, style |-> ""]
NextControls ==
    {Absent} \cup
    [present : {TRUE}, displayed : BOOLEAN, class_disabled : BOOLEAN,
     style : {"", "display: none", "visibility: hidden"}]

\* lines 300-328 of handle_pagination: what the loop does with the control
next_step_ignores_absence(ctl) == "click"
\* the loop without the test of the class and style attributes (line 311)
next_step_ignores_marker(ctl) ==
    IF ~ctl.present THEN "not_found"
    ELSE IF ~ctl.displayed THEN "hidden"
    ELSE "click"
next_step(ctl) ==
    IF ~ctl.present THEN "not_found"
    ELSE IF ~ctl.displayed THEN "hidden"
    ELSE IF ctl.class_disabled \/ ctl.style = "display: none"
            \/ ctl.style = "visibility: hidden" THEN "disabled"
    ELSE "click"

Flatten(pages) ==
    LET RECURSIVE cat(_)
        cat(i) == IF i > Len(pages) THEN << >> ELSE pages[i] \o cat(i + 1)
    IN  cat(1)

-----------------------------------------------------------------------------
(* SpecPagination: one call of handle_pagination on a site of finitely     *)
(* many pages; a click on the last page leaves the table as it is.         *)

\* most page reads of one call that an exception cuts short
MaxReadErrors == 1

Cell_a == << "a" >>
Cell_b == << "b" >>
Cell_1 == << " ","1" >>
Cell_2 == << "2"," " >>
\* a cell of white space only, which strip() empties
Cell_blank == << " " >>
HeaderRow == [th |-> << << "D","a","t","e" >>, << "V" >> >>, td |-> << >>]
DataRow(c, d) == [th |-> << >>, td |-> << c, d >>]
\* a row of a single cell
ShortRow(c) == [th |-> << >>, td |-> << c >>]

Tables ==
    { << HeaderRow, DataRow(Cell_a, Cell_1), DataRow(Cell_b, Cell_2) >>,
      << HeaderRow, DataRow(Cell_b, Cell_2) >>,
      << HeaderRow >>,
      << DataRow(Cell_a, Cell_1), DataRow(Cell_a, Cell_2) >>,
      << HeaderRow, DataRow(Cell_a, Cell_blank), DataRow(Cell_blank, Cell_blank),
         ShortRow(Cell_a) >>,
      NoTable }

InitPagination ==
    /\ site \in UNION {[1..n -> Tables] : n \in 1..MaxPages}
    /\ view = 1
    /\ pg_pc = "extract"
    /\ all_data = << >>
    /\ page_num = 1
    /\ previous_page_data = << >>
    /\ reads = << >>
    /\ clicks = 0
    /\ lookups = 0
    /\ last_ctl = << >>
    /\ read_errors = 0
    /\ error_read = 0
    /\ exit_reason = ""
    /\ DatesIdle
    /\ RunIdle

\* lines 283-297: read the page, stop on a duplicate or an empty page
ExtractPage ==
    /\ pg_pc = "extract"
    /\ \E fail_at \in 0..Len(site[view]) :
        /\ fail_at # 0 => read_errors < MaxReadErrors /\ site[view] # NoTable
        /\ read_errors' = IF fail_at # 0 THEN read_errors + 1 ELSE read_errors
        /\ error_read' = IF fail_at # 0 /\ error_read = 0 THEN Len(reads) + 1
                         ELSE error_read
        /\ LET page_data == extract_table_data(site[view], fail_at)
           IN  /\ reads' = Append(reads, page_data)
               /\ IF is_duplicate(previous_page_data, page_data)
                  THEN /\ pg_pc' = "done"
                       /\ exit_reason' = "duplicate"
                       /\ UNCHANGED << all_data, previous_page_data >>
                  ELSE IF has_rows(page_data)
                  THEN /\ all_data' = all_data \o page_data
                       /\ previous_page_data' = << page_data >>
                       /\ pg_pc' = "next"
                       /\ UNCHANGED exit_reason
                  ELSE /\ pg_pc' = "done"
                       /\ exit_reason' = "no_data"
                       /\ UNCHANGED << all_data, previous_page_data >>
    /\ UNCHANGED << site, view, page_num, clicks, lookups, last_ctl, dateVars, runVars >>

\* lines 299-328: look the next control up, stop or click it
FindNext ==
    /\ pg_pc = "next"
    /\ \E ctl \in NextControls, click_raises \in BOOLEAN :
        /\ lookups' = lookups + 1
        /\ last_ctl' = << ctl >>
        /\ IF next_step(ctl) # "click"
           THEN /\ pg_pc' = "done"
                /\ exit_reason' = next_step(ctl)
                /\ UNCHANGED << view, page_num, clicks >>
           ELSE IF click_raises
           THEN /\ pg_pc' = "done"
                /\ exit_reason' = "error"
                /\ UNCHANGED << view, page_num, clicks >>
           ELSE /\ clicks' = clicks + 1
                /\ view' = IF view < Len(site) THEN view + 1 ELSE view
                /\ page_num' = page_num + 1
                /\ pg_pc' = "extract"
                /\ UNCHANGED exit_reason
    /\ UNCHANGED << site, all_data, previous_page_data, reads, read_errors,
                   error_read, dateVars, runVars >>

NextPagination == ExtractPage \/ FindNext

SpecPagination == InitPagination /\ [][NextPagination]_vars

-----------------------------------------------------------------------------
(* Claims about handle_pagination, checked under SpecPagination            *)

\* C1: when the page read after a click equals the page read just before
\* it, handle_pagination stops at the repeated page without appending it:
\* the rows returned are those of the pages read before it, each page once,
\* in reading order.
C1_DuplicateStops ==
    (pg_pc # "extract" /\ Len(reads) >= 2
        /\ reads[Len(reads)] = reads[Len(reads) - 1]) =>
        /\ pg_pc = "done"
        /\ all_data = Flatten(SubSeq(reads, 1, Len(reads) - 1))
        /\ clicks = Len(reads) - 1

C1_Witness ==
    /\ exit_reason = "duplicate"
    /\ Len(reads) = 3
    /\ reads[1] # reads[2]
    /\ reads[3] = reads[2]
    /\ all_data = reads[1] \o reads[2]

\* C7: if the next control is absent when it is looked up after the first
\* page, extraction ends at once: no click, no further page read, and the
\* result is the first page's rows.
C7_NoNextControl ==
    (lookups = 1 /\ last_ctl = << Absent >>) =>
        /\ pg_pc = "done"
        /\ clicks = 0
        /\ Len(reads) = 1
        /\ all_data = reads[1]

C7_Witness ==
    /\ lookups = 1 /\ last_ctl = << Absent >> /\ pg_pc = "done"
    /\ exit_reason = "not_found"
    /\ Len(all_data) = 2

(***************************************************************************)
(* The sweep of scrape_all and the batch tool's main, run on an output     *)
(* directory.  File names are texts, so that generate_filename, the glob   *)
(* pattern and the .txt -> .csv renaming are computed.                     *)
(***************************************************************************)
MaxOutcomeChanges == 1   \* changes between a saved and a failed combination
MaxFaults == 1           \* environment faults met by one combination
MaxBadFiles == 1         \* files the batch tool fails to process

property_types == << << "P", "r", "i", "v", "a", "t", "e", " ", "N", "o", "n", "-", "L", "a", "n", "d", "e", "d" >>,
                     << "P", "r", "i", "v", "a", "t", "e", " ", "L", "a", "n", "d", "e", "d" >>,
                     << "H", "D", "B" >> >>
sale_types == << << "A", "l", "l", " ", "S", "a", "l", "e" >>,
                 << "R", "e", "s", "a", "l", "e" >> >>
market_segments == << << "A", "l", "l" >>,
                      << "C", "o", "r", "e", " ", "C", "e", "n", "t", "r", "a", "l" >>,
                      << "R", "e", "s", "t", " ", "o", "f", " ", "C", "e", "n", "t", "r", "a", "l" >>,
                      << "O", "u", "t", "s", "i", "d", "e", " ", "C", "e", "n", "t", "r", "a", "l" >> >>

total_combinations == Len(property_types) * Len(sale_types) * Len(market_segments)

\* the (property, sale, market) triple the nested loops reach k-th
Combination(k) ==
    LET per_property == Len(sale_types) * Len(market_segments)
        per_sale == Len(market_segments)
    IN  << property_types[((k - 1) \div per_property) + 1],
           sale_types[(((k - 1) \div per_sale) % Len(sale_types)) + 1],
           market_segments[((k - 1) % per_sale) + 1] >>

starts_with(s, prefix) ==
    Len(s) >= Len(prefix) /\ SubSeq(s, 1, Len(prefix)) = prefix

ends_with(s, suffix) ==
    Len(s) >= Len(suffix) /\ SubSeq(s, Len(s) - Len(suffix) + 1, Len(s)) = suffix

\* str.replace(old, new): every non-overlapping occurrence, left to right
RECURSIVE replace(_, _, _)
replace(s, old, new) ==
    IF s = << >> THEN << >>
    ELSE IF starts_with(s, old)
         THEN new \o replace(SubSeq(s, Len(old) + 1, Len(s)), old, new)
         ELSE << Head(s) >> \o replace(Tail(s), old, new)

FilePrefix == << "s", "r", "x", "_", "p", "r", "i", "c", "e", "_", "i", "n", "d", "e", "x", "_" >>
Txt == << ".", "t", "x", "t" >>
Csv == << ".", "c", "s", "v" >>
Underscore == << "_" >>

\* a file name that leaves the market segment out
generate_filename_without_market(property_type, sale_type, market_segment) ==
    LET prop_clean == lower(replace(property_type, << " " >>, Underscore))
        sale_clean == lower(replace(sale_type, << " " >>, Underscore))
    IN  FilePrefix \o prop_clean \o Underscore \o sale_clean \o Txt

generate_filename(property_type, sale_type, market_segment) ==
    LET prop_clean == lower(replace(property_type, << " " >>, Underscore))
        sale_clean == lower(replace(sale_type, << " " >>, Underscore))
        market_clean == lower(replace(market_segment, << " " >>, Underscore))
    IN  FilePrefix \o prop_clean \o Underscore \o sale_clean \o Underscore \o market_clean \o Txt

\* the file name of every combination, in the order of the loops
filenames ==
    [k \in 1..total_combinations |->
        generate_filename(Combination(k)[1], Combination(k)[2], Combination(k)[3])]


\* other names an output directory may hold
Notes == << "n", "o", "t", "e", "s", ".", "t", "x", "t" >>
OldFile == << "s", "r", "x", "_", "p", "r", "i", "c", "e", "_", "i", "n", "d", "e", "x", "_", "o", "l", "d", ".", "t", "x", "t" >>
GoneCsv == << "s", "r", "x", "_", "p", "r", "i", "c", "e", "_", "i", "n", "d", "e", "x", "_", "g", "o", "n", "e", ".", "c", "s", "v" >>

\* the directory entries of the model: a file is a position in this list
names == filenames \o << Notes, OldFile >>
NotesId == Len(filenames) + 1
OldId == Len(filenames) + 2

\* the name generate_filename gives the k-th combination
FileOf(k) == names[k]

\* glob.glob("srx_price_index_*.txt") on the names of a directory
fnmatch(f) ==
    /\ Len(f) >= Len(FilePrefix) + Len(Txt)
    /\ starts_with(f, FilePrefix)
    /\ ends_with(f, Txt)

matching == { i \in DOMAIN names : fnmatch(names[i]) }

glob(dir) == DOMAIN dir \cap matching

csv_name(base_name) == replace(base_name, Txt, Csv)

csv_names == [i \in DOMAIN names |-> csv_name(names[i])]

(***************************************************************************)
(* scrape_combination.  What the site does in one call is a set e of       *)
(* faults; the operators compute the path the code takes through them.     *)
(***************************************************************************)
Dims == << "property", "sale", "market" >>
DimSet == { Dims[i] : i \in 1..Len(Dims) }

NoId == [property |-> "no_property_id", sale |-> "no_sale_id",
         market |-> "no_market_id"]
SelectFails == [property |-> "select_property_fails", sale |-> "select_sale_fails",
                market |-> "select_market_fails"]
SelectStep == [property |-> "select_property", sale |-> "select_sale",
               market |-> "select_market"]
NotFoundStep == [property |-> "property_not_found", sale |-> "sale_not_found",
                 market |-> "market_not_found"]

Faults ==
    { "nav_raises",      \* driver.get / driver.title raises in navigate_to_page
      "no_ids",          \* none of the three ids is on the page
      "no_dropdowns",    \* no id and fewer than three select elements
      "no_rows",         \* handle_pagination returns no row
      "frame_error",     \* the DataFrame constructor raises on the rows
      "no_date_column",  \* the table has no column named Date
      "save_raises" }    \* os.makedirs / to_csv raises before a byte is written
    \cup { NoId[d] : d \in DimSet } \cup { SelectFails[d] : d \in DimSet }

\* the sets of at most n faults
RECURSIVE FaultSetsUpTo(_)
FaultSetsUpTo(n) ==
    IF n = 0 THEN { {} }
    ELSE FaultSetsUpTo(n - 1)
            \cup { e \cup {f} : e \in FaultSetsUpTo(n - 1), f \in Faults }

FaultSets == FaultSetsUpTo(MaxFaults)

find_dropdowns(e) ==
    IF e \cap { "no_ids", "no_dropdowns" } # {} THEN {}
    ELSE { d \in DimSet : NoId[d] \notin e }

select_dropdown_option_uncaught(d, e) ==
    IF SelectFails[d] \in e THEN "raised" ELSE "selected"

\* every exception of the selection is caught and turned into False
select_dropdown_option(d, e) ==
    IF SelectFails[d] \in e THEN "failed" ELSE "selected"

\* the three "if d in dropdowns" blocks, in the order of the code
select_options(dropdowns, e) ==
    LET result == [d \in DimSet |-> IF d \notin dropdowns THEN "not_found"
                                    ELSE select_dropdown_option(d, e)]
        reached(i) == \A j \in 1..(i - 1) : result[Dims[j]] # "raised"
        step(i) == IF ~reached(i) THEN << >>
                   ELSE IF result[Dims[i]] = "not_found" THEN << NotFoundStep[Dims[i]] >>
                   ELSE << SelectStep[Dims[i]] >>
    IN  [steps |-> step(1) \o step(2) \o step(3),
         selected |-> { Dims[i] : i \in { n \in 1..Len(Dims) :
                           reached(n) /\ result[Dims[n]] = "selected" } },
         raised |-> \E i \in 1..Len(Dims) : reached(i) /\ result[Dims[i]] = "raised"]

\* the call for the k-th combination; df is "empty", "dated" or "no_date".
\* ids: the dropdowns found by id; three_selects: the page has at least three
\* select elements; located: the dropdowns the selections are made on.
scrape_combination(k, e) ==
    IF "nav_raises" \in e
    THEN [c |-> k, raised |-> TRUE, df |-> "empty", steps |-> << "navigate" >>,
          ids |-> {}, three_selects |-> TRUE,
          located |-> {}, selected |-> {}]
    ELSE
    LET ids == find_dropdowns(e)
        three_selects == "no_dropdowns" \notin e
        fallback == ids = {}
        dropdowns == IF fallback THEN DimSet ELSE ids
        found == << "navigate", "find_dropdowns" >>
                    \o (IF fallback THEN << "find_selects" >> ELSE << >>)
        sel == select_options(dropdowns, e)
    IN  IF fallback /\ ~three_selects
        THEN [c |-> k, raised |-> FALSE, df |-> "empty", steps |-> found,
              ids |-> ids, three_selects |-> three_selects,
              located |-> {}, selected |-> {}]
        ELSE IF sel.raised
        THEN [c |-> k, raised |-> FALSE, df |-> "empty",
              steps |-> found \o sel.steps \o << "except" >>,
              ids |-> ids, three_selects |-> three_selects,
              located |-> dropdowns, selected |-> sel.selected]
        ELSE [c |-> k, raised |-> FALSE,
              df |-> IF "no_rows" \in e \/ "frame_error" \in e THEN "empty"
                     ELSE IF "no_date_column" \in e THEN "no_date" ELSE "dated",
              steps |-> found \o sel.steps
                          \o << "settle", "get_table_headers", "handle_pagination" >>
                          \o (IF "no_rows" \in e THEN << >>
                              ELSE IF "frame_error" \in e THEN << "except" >>
                              ELSE << "DataFrame" >>),
              ids |-> ids, three_selects |-> three_selects,
              located |-> dropdowns, selected |-> sel.selected]

(***************************************************************************)
(* The output directory and the archive.                                   *)
(***************************************************************************)
Prior == [from |-> 0, normalized |-> FALSE]     \* content left by an earlier run
Scraped(k) == [from |-> k, normalized |-> TRUE] \* content save_data writes

\* writing a file: the entry of that name is created or overwritten
Put(dir, filename, content) ==
    LET i == IndexOf(filename, names)
    IN  [f \in DOMAIN dir \cup {i} |-> IF f = i THEN content ELSE dir[f]]

\* save_data of a non-empty frame: the result, and whether it raised
save_data(dir, df, filename, k, e) ==
    IF df = "no_date" \/ "save_raises" \in e
    THEN [raised |-> TRUE, dir |-> dir]
    ELSE [raised |-> FALSE, dir |-> Put(dir, filename, Scraped(k))]

EntryOf(dir, f) == [name |-> csv_names[f], content |-> dir[f]]

\* one zipf.write per file: the bag of the entries written
Written(dir, txt_files) ==
    [x \in { EntryOf(dir, f) : f \in txt_files } |->
        Cardinality({ f \in txt_files : EntryOf(dir, f) = x })]

open_archive_appending(old) == IF old = << >> THEN EmptyBag ELSE old[1]

\* ZipFile(zip_filename, 'w'): an archive at the path is truncated
open_archive(old) == EmptyBag

create_zip_archive(dir, old) ==
    LET txt_files == glob(dir)
    IN  IF txt_files = {} THEN old
        ELSE << open_archive(old) (+) Written(dir, txt_files) >>

process_and_zip_create_zip_archive(dir, old) ==
    LET txt_files == glob(dir)
    IN  IF txt_files = {} THEN old
        ELSE << open_archive(old) (+) Written(dir, txt_files) >>


Directories ==
    { [f \in present |-> Prior] :
        present \in { {}, {NotesId}, {NotesId, 1}, {NotesId, 1, OldId} } }

Archives == { << >>, << SetToBag({ [name |-> GoneCsv, content |-> Prior] }) >> }

(***************************************************************************)
(* Spec: one run of the scraper (scrape_all) or of the batch tool (main).  *)
(***************************************************************************)
Init ==
    /\ prog \in { "scraper", "batch" }
    /\ pc = (IF prog = "scraper" THEN "setup" ELSE "process")
    /\ files \in Directories /\ files0 = files
    /\ zip \in Archives /\ zip0 = zip
    /\ driver = "none" /\ idx = 0
    /\ current = 0 /\ successful = 0 /\ failed = 0 /\ exc = FALSE
    /\ comb = NoCombination /\ attempted = {} /\ succeeded = {}
    /\ changes = 0 /\ zip_calls = 0 /\ processed_files = {}
    /\ summary = << >>
    /\ DatesIdle /\ PagIdle

\* setup_driver, called before the try block is entered
SetupDriver ==
    /\ prog = "scraper" /\ pc = "setup"
    /\ \E outcome \in { "ready", "no_session", "wait_raises" } :
          \* the constructor raises: self.driver stays None
          \/ /\ outcome = "no_session"
             /\ driver' = "none" /\ pc' = "done" /\ exc' = TRUE
          \* the session is assigned to self.driver, then implicitly_wait raises
          \/ /\ outcome = "wait_raises"
             /\ driver' = "open" /\ pc' = "done" /\ exc' = TRUE
          \/ /\ outcome = "ready"
             /\ driver' = "open" /\ pc' = "sweep" /\ exc' = FALSE
    /\ UNCHANGED << prog, files, zip, files0, zip0, idx, current, successful, failed,
                    comb, attempted, succeeded, changes, zip_calls, processed_files,
                    summary, dateVars, pagVars >>

\* one pass of the body of the innermost loop
ScrapeNext ==
    /\ prog = "scraper" /\ pc = "sweep" /\ idx < total_combinations
    /\ \E e \in FaultSets :
        \E r \in { scrape_combination(idx + 1, e) } :
        \E s \in { save_data(files, r.df, FileOf(idx + 1), idx + 1, e) } :
        LET k == idx + 1
            saved == ~r.raised /\ r.df # "empty" /\ ~s.raised
            raises == r.raised \/ (r.df # "empty" /\ s.raised)
            changed == idx > 0 /\ ((idx \in succeeded) # saved)
        IN  /\ changed => changes < MaxOutcomeChanges
            /\ changes' = (IF changed THEN changes + 1 ELSE changes)
            /\ idx' = k
            /\ current' = current + 1
            /\ attempted' = attempted \cup {k}
            /\ comb' = r
            /\ files' = (IF saved THEN s.dir ELSE files)
            /\ successful' = (IF saved THEN successful + 1 ELSE successful)
            /\ succeeded' = (IF saved THEN succeeded \cup {k} ELSE succeeded)
            /\ failed' = (IF ~raises /\ ~saved THEN failed + 1 ELSE failed)
            /\ exc' = raises
            /\ pc' = (IF raises THEN "finally" ELSE "sweep")
    /\ UNCHANGED << prog, zip, files0, zip0, driver, zip_calls, processed_files,
                    summary, dateVars, pagVars >>

\* after the loops: if successful > 0: self.create_zip_archive()
CreateZip ==
    /\ prog = "scraper" /\ pc = "sweep" /\ idx = total_combinations
    /\ successful > 0
    /\ zip' = create_zip_archive(files, zip)
    /\ zip_calls' = zip_calls + 1
    /\ pc' = "finally"
    /\ UNCHANGED << prog, files, files0, zip0, driver, idx, current, successful,
                    failed, exc, comb, attempted, succeeded, changes,
                    processed_files, summary, dateVars, pagVars >>

SkipZip ==
    /\ prog = "scraper" /\ pc = "sweep" /\ idx = total_combinations
    /\ ~(successful > 0)
    /\ pc' = "finally"
    /\ UNCHANGED << prog, files, zip, files0, zip0, driver, idx, current, successful,
                    failed, exc, comb, attempted, succeeded, changes, zip_calls,
                    processed_files, summary, dateVars, pagVars >>

\* the finally block: close_driver, then the summary lines.  driver.quit()
\* may raise; the exception leaves the block before the summary is printed.
Finally ==
    /\ prog = "scraper" /\ pc = "finally"
    /\ \E quit_raises \in BOOLEAN :
          IF quit_raises
          THEN /\ driver' = "quit_raised"
               /\ exc' = TRUE
               /\ summary' = summary
          ELSE /\ driver' = "closed"
               /\ exc' = exc
               /\ summary' = << [processed |-> current, successful |-> successful,
                                 failed |-> failed] >>
    /\ pc' = "done"
    /\ UNCHANGED << prog, files, zip, files0, zip0, idx, current, successful, failed,
                    comb, attempted, succeeded, changes, zip_calls,
                    processed_files, dateVars, pagVars >>

\* process_files: each matching file is rewritten, or skipped on an error
ProcessFiles ==
    /\ prog = "batch" /\ pc = "process"
    /\ \E bad \in SUBSET glob(files) :
          /\ Cardinality(bad) <= MaxBadFiles
          /\ processed_files' = glob(files) \ bad
          /\ files' = [f \in DOMAIN files |->
                          IF f \in glob(files) \ bad
                          THEN [files[f] EXCEPT !.normalized = TRUE]
                          ELSE files[f]]
    /\ pc' = "zip"
    /\ UNCHANGED << prog, zip, files0, zip0, driver, idx, current, successful, failed,
                    exc, comb, attempted, succeeded, changes, zip_calls,
                    summary, dateVars, pagVars >>

\* main: "if not processed_files: return"
BatchExit ==
    /\ prog = "batch" /\ pc = "zip" /\ processed_files = {}
    /\ pc' = "done"
    /\ UNCHANGED << prog, files, zip, files0, zip0, driver, idx, current, successful,
                    failed, exc, comb, attempted, succeeded, changes, zip_calls,
                    processed_files, summary, dateVars, pagVars >>

BatchZip ==
    /\ prog = "batch" /\ pc = "zip" /\ processed_files # {}
    /\ zip' = process_and_zip_create_zip_archive(files, zip)
    /\ zip_calls' = zip_calls + 1
    /\ pc' = "done"
    /\ UNCHANGED << prog, files, files0, zip0, driver, idx, current, successful,
                    failed, exc, comb, attempted, succeeded, changes,
                    processed_files, summary, dateVars, pagVars >>

Next ==
    \/ SetupDriver
    \/ ScrapeNext
    \/ CreateZip
    \/ SkipZip
    \/ Finally
    \/ ProcessFiles
    \/ BatchExit
    \/ BatchZip

Spec == Init /\ [][Next]_vars

-----------------------------------------------------------------------------
(* Claims about a run                                                      *)

InSteps(x, steps) == IndexOf(x, steps) > 0

\* the archive has an entry of that name
HasEntry(archive, name) ==
    archive # << >> /\ \E x \in BagToSet(archive[1]) : x.name = name

\* C2: in a run of scrape_all that acquired a session, a failure of one
\* combination is counted as successful or failed and never stops the sweep:
\* when the run is over, scrape_combination was called for all 24 combinations.
C2_SweepNeverStops ==
    (prog = "scraper" /\ pc = "done" /\ driver = "closed") =>
        /\ attempted = 1..total_combinations
        /\ current = successful + failed

\* C3: whatever the output directory held at the start, the archive written
\* by a run has an entry for a combination only if that combination was saved
\* in this run, and a combination that was not saved leaves its file as the
\* run found it (absent, or with the earlier content).
C3_ArchiveOnlySucceeded ==
    (prog = "scraper" /\ pc = "done" /\ zip_calls = 1) =>
        /\ \A k \in 1..total_combinations :
              HasEntry(zip, csv_names[k]) => k \in succeeded
        /\ \A k \in attempted \ succeeded :
              /\ k \in DOMAIN files <=> k \in DOMAIN files0
              /\ k \in DOMAIN files => files[k] = files0[k]

\* C8: when one of the three selections fails or its dropdown was not located,
\* and the other two succeed, every located dropdown is still selected on, the
\* settle delay and handle_pagination follow in that order, and the combination
\* is counted in current.
C8_DegradedSelection ==
    (comb.c > 0 /\ Cardinality(comb.selected) = 2) =>
        /\ \A d \in DimSet :
              IF d \in comb.located THEN InSteps(SelectStep[d], comb.steps)
              ELSE InSteps(NotFoundStep[d], comb.steps)
        /\ InSteps("settle", comb.steps)
        /\ InSteps("handle_pagination", comb.steps)
        /\ \A d \in comb.located :
              IndexOf(SelectStep[d], comb.steps) < IndexOf("settle", comb.steps)
        /\ IndexOf("settle", comb.steps) < IndexOf("handle_pagination", comb.steps)
        /\ comb.c \in attempted
        /\ current = comb.c

C8_Witness ==
    /\ comb.c > 0
    /\ comb.located = DimSet
    /\ comb.selected = { "property", "market" }
    /\ InSteps("handle_pagination", comb.steps)
    /\ comb.df = "dated"
    /\ comb.c \in succeeded

\* the entry the archive step owes to file i: the name with the .txt suffix
\* changed to .csv, the content of the file
Owed(dir, i) ==
    [name |-> SubSeq(names[i], 1, Len(names[i]) - Len(Txt)) \o Csv,
     content |-> dir[i]]

\* C9: a call of create_zip_archive, in either program, leaves the directory
\* as it is and leaves an archive holding exactly one entry for each file
\* matching srx_price_index_*.txt (named .csv, same content) and nothing else,
\* whatever archive was at the path before.
C9_ArchiveStep ==
    [][ zip_calls' = zip_calls + 1 =>
          /\ files' = files
          /\ zip' # << >>
          /\ \A i \in DOMAIN files :
                fnmatch(names[i]) => CopiesIn(Owed(files, i), zip'[1]) = 1
          /\ BagCardinality(zip'[1])
                = Cardinality({ i \in DOMAIN files : fnmatch(names[i]) }) ]_vars

C9_Witness ==
    /\ zip_calls = 1
    /\ zip0 # << >>
    /\ NotesId \in DOMAIN files /\ OldId \in DOMAIN files
    /\ \E k \in succeeded : files[k] = Scraped(k)
    /\ ~HasEntry(zip, GoneCsv)
    /\ HasEntry(zip, csv_names[OldId])

\* C10: a run of scrape_all that started a browser session has closed it when
\* scrape_all returns or lets an exception out.
C10_SessionClosed ==
    (prog = "scraper" /\ pc = "done" /\ driver # "none") => driver = "closed"

\* C11: every execution of scrape_all ends by printing the run summary with
\* the counts of processed, successful and failed combinations.
C11_SummaryEmitted ==
    (prog = "scraper" /\ pc = "done") =>
        summary = << [processed |-> current, successful |-> successful,
                      failed |-> failed] >>

\* C12: in a run of scrape_all the archive is assembled at most once, only
\* after scrape_combination was called for every combination, and exactly when
\* at least one combination was saved; a run that saved none leaves the
\* archive as it found it.
C12_ArchiveOnceAfterSweep ==
    prog = "scraper" =>
        /\ zip_calls <= 1
        /\ zip_calls = 1 => attempted = 1..total_combinations /\ succeeded # {}
        /\ (pc = "done" /\ succeeded # {}) => zip_calls = 1
        /\ (pc = "done" /\ succeeded = {}) => zip_calls = 0 /\ zip = zip0

\* C12 without "exactly when": the archive is assembled at most once, only
\* after every combination, only if one was saved, and never if none was.
C12_ArchiveOnlyAfterSweep ==
    prog = "scraper" =>
        /\ zip_calls <= 1
        /\ zip_calls = 1 => attempted = 1..total_combinations /\ succeeded # {}
        /\ (pc = "done" /\ succeeded = {}) => zip_calls = 0 /\ zip = zip0

-----------------------------------------------------------------------------
(* More claims about handle_pagination, checked under SpecPagination       *)

\* C13: once an exception has cut the reading of a page short, extraction is
\* over for the combination: the cut read stays the last read and no click on
\* the next control follows it.
C13_ReadErrorAborts ==
    error_read > 0 =>
        /\ Len(reads) = error_read
        /\ clicks = error_read - 1

-----------------------------------------------------------------------------
(* More claims about a run, checked under Spec                             *)

\* C14: whenever scrape_combination finds fewer than three of the dropdowns
\* by id, it assigns the dropdowns by position over the select elements of
\* the page if there are at least three of them, and otherwise returns an
\* empty result without extracting.
C14_FallbackBelowThree ==
    (comb.c > 0 /\ InSteps("find_dropdowns", comb.steps)
        /\ Cardinality(comb.ids) < Len(Dims)) =>
        IF comb.three_selects
        THEN InSteps("find_selects", comb.steps) /\ comb.located = DimSet
        ELSE comb.df = "empty" /\ ~InSteps("handle_pagination", comb.steps)

\* C14 for a page on which none of the three ids is found
C14_FallbackWhenNone ==
    (comb.c > 0 /\ InSteps("find_dropdowns", comb.steps) /\ comb.ids = {}) =>
        IF comb.three_selects
        THEN InSteps("find_selects", comb.steps) /\ comb.located = DimSet
        ELSE comb.df = "empty" /\ ~InSteps("handle_pagination", comb.steps)

\* position of a combination in the nesting order: property outer, sale
\* middle, market inner
NestingRank(t) ==
    ((IndexOf(t[1], property_types) - 1) * Len(sale_types)
        + (IndexOf(t[2], sale_types) - 1)) * Len(market_segments)
    + IndexOf(t[3], market_segments)

\* the k-th pass of the loops is for the k-th triple of the product
NestingOrder ==
    /\ \A k \in 1..total_combinations : NestingRank(Combination(k)) = k
    /\ { Combination(k) : k \in 1..total_combinations }
          = { << p, s, m >> : p \in { property_types[i] : i \in DOMAIN property_types },
                              s \in { sale_types[i] : i \in DOMAIN sale_types },
                              m \in { market_segments[i] : i \in DOMAIN market_segments } }

\* navigate < find the dropdowns < select < settle < extract < build the frame
StepRank(x) ==
    IF x = "navigate" THEN 1
    ELSE IF x \in { "find_dropdowns", "find_selects" } THEN 2
    ELSE IF x \in { SelectStep[d] : d \in DimSet } \cup { NotFoundStep[d] : d \in DimSet }
    THEN 3
    ELSE IF x = "settle" THEN 4
    ELSE IF x \in { "get_table_headers", "handle_pagination" } THEN 5
    ELSE 6

StepsInOrder(steps) ==
    \A i, j \in DOMAIN steps : i < j => StepRank(steps[i]) <= StepRank(steps[j])

\* the attempts made so far are the first idx combinations of the nesting
\* order, one call each, one at a time, each with its steps in order and
\* saved only after its frame was built
C15_InOrderAtMostOnce ==
    /\ NestingOrder
    /\ prog = "scraper" =>
          /\ attempted = 1..idx
          /\ current = Cardinality(attempted)
          /\ idx > 0 => comb.c = idx
          /\ StepsInOrder(comb.steps)
          /\ (idx > 0 /\ idx \in succeeded) =>
                comb.steps[Len(comb.steps)] = "DataFrame"

\* C15: scrape_all attempts the combinations of property_types x sale_types x
\* market_segments in nesting order, each exactly once and one at a time, and
\* within a combination the steps come in the order navigate, select, settle,
\* extract, normalize and persist.
C15_InOrderExactlyOnce ==
    /\ C15_InOrderAtMostOnce
    /\ (prog = "scraper" /\ pc = "done" /\ idx > 0) =>
          attempted = 1..total_combinations

-----------------------------------------------------------------------------
(* More claims about the normalizer, checked under SpecDates               *)

\* a dataset of one row with that label, gone through its first pass
FirstPassOf(l) ==
    /\ Len(passes) = 1
    /\ df_raw = [columns |-> DateColumns, rows |-> << << l, 1 >> >>]

Nov2025Variants ==
    { << "N","O","V"," ","2","0","2","5" >>, << "n","o","v"," ","2","0","2","5" >>,
      << "N","o","v"," ","2","0","2","5" >>, << "N","O","V","-","2","0","2","5" >>,
      << "n","o","v","-","2","0","2","5" >>, << "N","o","v","-","2","0","2","5" >> }

\* C16: whatever the capitalization of the month abbreviation, in the shape
\* "<Mon> <YYYY>" and in the shape "<mon>-<yyyy>", parse_date_to_periodM
\* returns the same PeriodKey with the month's number: 2025-11 for every
\* variant of November 2025, in the scraper and in the batch tool.
C16_CaseInsensitiveMonth ==
    \A l \in Nov2025Variants :
        FirstPassOf(l) => sort_key = << << "2","0","2","5","-","1","1" >> >>

Foo2020 == << "F","o","o"," ","2","0","2","0" >>

\* what the code does with a label of an unknown month: the key is
\* "<year>-01" and the single row is kept
C17_UnknownMonthDefaults ==
    FirstPassOf(Foo2020) =>
        /\ sort_key = << << "2","0","2","0","-","0","1" >> >>
        /\ Len(df_cur.rows) = 1

\* C17: for a two-token label whose month abbreviation is not one of the
\* twelve known ones, parse_date_to_periodM returns the PeriodKey
\* "<year>-01", the row stays in the batch, and a date-parse error naming
\* the label is reported.
C17_UnknownMonthReported ==
    FirstPassOf(Foo2020) =>
        /\ C17_UnknownMonthDefaults
        /\ Foo2020 \in reported

\* "<4-digit year>-<month number 01..12>"
IsPeriodKey(k) ==
    /\ Len(k) = 7
    /\ \A i \in 1..4 : \E d \in DOMAIN Digits : k[i] = Digits[d]
    /\ k[5] = "-"
    /\ \E m \in DOMAIN MONTH_MAP : << k[6], k[7] >> = MONTH_MAP[m][2]

\* C18: periodM_to_mmm_yyyy returns its input unchanged for every malformed
\* PeriodKey: when the key computed for a label is not of the form
\* "<4-digit year>-<month number 01..12>", the Date written back is that key
\* itself, in the scraper and in the batch tool.
C18_MalformedKeyUnchanged ==
    \A l \in AllLabels :
        (FirstPassOf(l) /\ ~IsPeriodKey(sort_key[1])) =>
            df_cur.rows[1][1] = sort_key[1]

\* every Date label of the dataset is "<Mon> <YYYY>" or "<mon>-<yyyy>"
AcceptedShapes(df) ==
    /\ HasDate(df)
    /\ \A i \in DOMAIN df.rows : date_column(df)[i] \in SiteLabels \cup CanonicalLabels

\* C19: process_dates of the scraper and process_dataframe of the batch
\* tool are equivalent on datasets whose Date labels are of an accepted
\* shape: the frame either one returns for the dataset is a frame the other
\* one can return for it (same rows, same order, same Date labels).
C19_ScraperBatchEquivalent ==
    (Len(passes) = 1 /\ AcceptedShapes(df_raw)) =>
        /\ df_cur \in process_dates(df_raw)
        /\ df_cur \in process_dataframe(df_raw)

-----------------------------------------------------------------------------
(* More claims about extract_table_data, checked under SpecPagination      *)

\* the number of cells of the row that are not empty
RECURSIVE NonEmptyCells(_)
NonEmptyCells(row) ==
    IF row = << >> THEN 0
    ELSE (IF Head(row) # << >> THEN 1 ELSE 0) + NonEmptyCells(Tail(row))

\* what the code guarantees: every row returned has at least 2 cells, one
\* of them not empty
C20_TwoCellsOneNonEmpty ==
    \A p \in DOMAIN reads : \A r \in DOMAIN reads[p] :
        Len(reads[p][r]) >= 2 /\ NonEmptyCells(reads[p][r]) >= 1

\* C20: every row extract_table_data returns has at least 2 non-empty
\* cells: rows with fewer than 2 non-empty cells, and rows whose cells are
\* all empty, are dropped before the page is compared or accumulated.
C20_TwoNonEmptyCells ==
    \A p \in DOMAIN reads : \A r \in DOMAIN reads[p] :
        NonEmptyCells(reads[p][r]) >= 2

\* the table that read number p of the call looks at: every read after the
\* first one follows a click
TableRead(p) == site[IF p < Len(site) THEN p ELSE Len(site)]

\* a row of td cells with a date and a value
IsDataRow(row) == Len(row.td) >= 2 /\ NonEmptyCells(stripped(row.td)) >= 2

\* row i of the table read by read p is among the rows that read returned
Returned(p, i) ==
    \E r \in DOMAIN reads[p] : reads[p][r] = stripped(TableRead(p)[i].td)

\* what the code guarantees: of a table read without error, every data row
\* after the first row of the table is returned
C21_RowsAfterFirstReturned ==
    \A p \in DOMAIN reads :
        p # error_read =>
            \A i \in DOMAIN TableRead(p) :
                (i > 1 /\ IsDataRow(TableRead(p)[i])) => Returned(p, i)

\* C21: on each page read without error extract_table_data excludes at most
\* the header row: every data row of the table is among the rows returned,
\* the first row of a table without header row included.
C21_EveryDataRowReturned ==
    \A p \in DOMAIN reads :
        p # error_read =>
            \A i \in DOMAIN TableRead(p) :
                IsDataRow(TableRead(p)[i]) => Returned(p, i)

-----------------------------------------------------------------------------
(* More claims about handle_pagination's use of the next control           *)

\* the control is there and is not displayed, or its class holds
\* 'disabled', or its style holds 'display: none' or 'visibility: hidden'
Blocked(ctl) ==
    /\ ctl.present
    /\ \/ ~ctl.displayed
       \/ ctl.class_disabled
       \/ ctl.style = "display: none"
       \/ ctl.style = "visibility: hidden"

\* C22: handle_pagination never clicks a next control that is not
\* displayed, or whose class holds 'disabled', or whose style holds
\* 'display: none' or 'visibility: hidden': the look-up that finds such a
\* control ends the loop without a click (every earlier look-up was
\* followed by one), and the rows returned are those of every page read,
\* the current page included.
C22_BlockedNeverClicked ==
    (last_ctl # << >> /\ Blocked(last_ctl[1])) =>
        /\ pg_pc = "done"
        /\ exit_reason \in {"hidden", "disabled"}
        /\ clicks = lookups - 1
        /\ Len(reads) = lookups
        /\ all_data = Flatten(reads)

\* on the second page the control is displayed and marked disabled
C22_Witness ==
    /\ last_ctl # << >> /\ last_ctl[1].present /\ last_ctl[1].displayed
    /\ last_ctl[1].class_disabled
    /\ exit_reason = "disabled"
    /\ lookups = 2 /\ clicks = 1
    /\ Len(reads) = 2 /\ reads[1] # reads[2]
    /\ all_data = reads[1] \o reads[2]

\* a control that is not displayed, on the first page
C22_WitnessHidden ==
    /\ last_ctl # << >> /\ last_ctl[1].present /\ ~last_ctl[1].displayed
    /\ exit_reason = "hidden" /\ clicks = 0 /\ all_data # << >>

\* the loop of handle_pagination scheduled until it breaks
FairPagination == SpecPagination /\ WF_vars(NextPagination)

\* what the code guarantees, with at most MaxReadErrors reads cut short by
\* an exception: the loop breaks
C23_Terminates == <>(pg_pc = "done")

\* and, when no read of a page is cut short by an exception, it breaks
\* after at most one read more than the site has pages
C23_BoundWithoutReadErrors ==
    read_errors = 0 => Len(reads) <= Len(site) + 1

\* C23: on a site of finitely many pages, where a click on the last page
\* leaves the table as it is, handle_pagination reads at most (number of
\* pages + 1) pages, whatever the next control looks like.
C23_ReadsAtMostPagesPlusOne ==
    Len(reads) <= Len(site) + 1

\* C24: a page read that yields no rows, the first page or a later one,
\* ends the loop at once: it is the last read, the next control is neither
\* looked up nor clicked after it, and the rows returned are those
\* accumulated from the pages before it.
C24_EmptyPageStops ==
    \A p \in DOMAIN reads :
        reads[p] = << >> =>
            /\ p = Len(reads)
            /\ pg_pc = "done"
            /\ exit_reason = "no_data"
            /\ lookups = p - 1
            /\ clicks = p - 1
            /\ all_data = Flatten(SubSeq(reads, 1, p - 1))

\* the second page read has no rows, the first one had two
C24_Witness ==
    /\ Len(reads) = 2 /\ reads[2] = << >> /\ Len(reads[1]) = 2
    /\ exit_reason = "no_data" /\ lookups = 1 /\ clicks = 1
    /\ all_data = reads[1]

\* the first page read has no rows
C24_WitnessFirstPage ==
    /\ Len(reads) = 1 /\ reads[1] = << >>
    /\ exit_reason = "no_data" /\ lookups = 0 /\ all_data = << >>

-----------------------------------------------------------------------------
(* More claims about a run, checked under Spec                             *)

\* what the code guarantees: between two combinations of the sweep the
\* counters add up, and the file of every combination counted as successful
\* is in the output directory with the content save_data wrote
C25_ConsistentBetweenCombinations ==
    /\ (prog = "scraper" /\ pc = "sweep") => current = successful + failed
    /\ prog = "scraper" =>
          /\ successful = Cardinality(succeeded)
          /\ \A k \in succeeded : k \in DOMAIN files /\ files[k] = Scraped(k)

\* C25: the counters of scrape_all stay consistent: after each combination
\* and in the summary printed at the end of the run, the number of
\* combinations processed is successful + failed, and every combination
\* counted as successful has its file in the output directory.
C25_CountersConsistent ==
    /\ C25_ConsistentBetweenCombinations
    /\ summary # << >> =>
          summary[1].processed = summary[1].successful + summary[1].failed

\* C26: generate_filename is injective on the combinations of the sweep:
\* two distinct combinations that were attempted have distinct file names,
\* each srx_price_index_<...>.txt, so the file of a combination that was
\* saved still holds what that combination wrote: no other combination of
\* the run overwrote it.
C26_FilenamesInjective ==
    prog = "scraper" =>
        /\ \A j \in attempted : \A k \in attempted :
              j # k => FileOf(j) # FileOf(k)
        /\ \A k \in attempted :
              starts_with(FileOf(k), FilePrefix) /\ ends_with(FileOf(k), Txt)
        /\ \A k \in succeeded : k \in DOMAIN files /\ files[k] = Scraped(k)

\* a sweep that went through all the combinations and saved them all
C26_Witness ==
    /\ prog = "scraper" /\ pc = "done"
    /\ attempted = 1..total_combinations
    /\ succeeded = attempted
    /\ \A k \in succeeded : files[k] = Scraped(k)

\* what the code guarantees for a run of the batch tool: with no matching
\* file nothing is written; otherwise the archive is rebuilt if and only if
\* some file was re-normalized, with one entry per matching file
C27_ArchiveOfMatchingFiles ==
    (prog = "batch" /\ pc = "done") =>
        /\ glob(files0) = {} => (zip_calls = 0 /\ zip = zip0 /\ files = files0)
        /\ zip_calls = (IF processed_files # {} THEN 1 ELSE 0)
        /\ zip_calls = 1 =>
              /\ zip # << >>
              /\ BagToSet(zip[1]) = { EntryOf(files, f) : f \in glob(files) }

\* C27: in a run of the batch tool the archive is rebuilt whenever the
\* output directory has at least one matching file, every entry of the
\* rebuilt archive is a file that was re-normalized in this run, and with
\* no matching file no archive is written.
C27_BatchArchive ==
    (prog = "batch" /\ pc = "done") =>
        /\ glob(files0) = {} => (zip_calls = 0 /\ zip = zip0)
        /\ glob(files0) # {} => zip_calls = 1
        /\ zip_calls = 1 =>
              /\ zip # << >>
              /\ \A x \in BagToSet(zip[1]) :
                    \E f \in processed_files : x = EntryOf(files, f)

=============================================================================
